---- MODULE Spec2Model ----
(***************************************************************************)
(* A model of the spike-detection and alert-lifecycle functions of         *)
(* AQ_SpikeAlerts:                                                         *)
(*   Scripts/python/Get_spikes_df.py  Get_spikes_df                        *)
(*   Scripts/python/Send_Alerts.py    Users_nearby_sensor,                 *)
(*                                    Users_to_message_new_alert,          *)
(*                                    initialize_report, send_all_messages,*)
(*                                    get_phone_numbers, update_user_table *)
(* The PostgreSQL store is modelled by the tables the SQL statements read  *)
(* and write; every statement is modelled by what it selects or inserts.   *)
(***************************************************************************)
EXTENDS Integers, Sequences, FiniteSets, TLC

VARIABLES
    \* ---- Get_spikes_df.py ----
    response_data,       \* response_dict['data']: the raw rows of the API response
    spike_threshold,     \* the spike_threshold argument
    now,                 \* dt.datetime.now() read at line 125 (naive local clock, s)
    sensors_df,          \* the dataframe after the last_seen correction (line 114)
    clean_df,            \* the dataframe after lines 129-141
    spikes_df,           \* returned: rows (sensor_index, pm25), index reset
    flagged_sensor_ids,  \* returned: series of sensor_index
    returned,            \* TRUE once Get_spikes_df has returned
    raised,              \* the exception Get_spikes_df ended with, or "none"
    \* ---- Send_Alerts.py: the store and the module's namespace ----
    stations,            \* table "PurpleAir Stations": sensor_index -> geometry
    users,               \* table "Sign Up Information": record_id -> row
    archived,            \* table "Archived Alerts Acute PurpleAir": alert_index -> row
    reports,             \* table "Reports Archive": rows in insertion order
    report_id,           \* binding of the global name report_id read at line 163
    clock,               \* latest instant read so far (s, America/Chicago wall time)
    call,                \* the last call that finished: op, args, result
    pre_users,           \* "Sign Up Information" as it was when the last call began
    pre_reports          \* "Reports Archive" as it was when the last call began

spike_vars == <<response_data, spike_threshold, now, sensors_df, clean_df,
                spikes_df, flagged_sensor_ids, returned, raised>>
store_vars == <<stations, users, archived, reports, report_id, clock, call,
                pre_users, pre_reports>>
vars == <<response_data, spike_threshold, now, sensors_df, clean_df,
          spikes_df, flagged_sensor_ids, returned, raised,
          stations, users, archived, reports, report_id, clock, call,
          pre_users, pre_reports>>

\* None / NaN / NaT / SQL NULL: a value apart from every value the program
\* computes here. Identifiers, readings, flags and instants are naturals, and
\* a duration_minutes, which is negative when start_time is ahead of the clock,
\* is far above it.
NULL == 0 - 1000000

Range(s) == {s[i] : i \in 1..Len(s)}

(***************************************************************************)
(*                        Get_spikes_df.py                                 *)
(***************************************************************************)

\* Bound: the number of rows of the API response.
MaxRows == 2

\* pd.Timedelta(hours=5): "UTC time is 5 hours ahead".
UTC_OFFSET_HOURS == 5
\* dt.timedelta(minutes=60): a sensor not seen for longer is flagged.
STALE_MINUTES == 60
\* clean_df.pm25 < 1000: "Remove obvious error values".
ERROR_PM25 == 1000

\* Channel Flags: 0 = Normal, 1 = A Downgraded.  Channel State: 0 = No PM, 3 = Both On.
Readings == {5, 40, ERROR_PM25}
ChannelFlags == {0, 1}
ChannelStates == {0, 3}
\* the local clock readings of line 125, in seconds
Nows == {7200, 7201}
\* last_seen as the API gives it (UTC epoch seconds): at local 7200 the first
\* is exactly 60 minutes old after the correction, the second one second older
LastSeens == {21600, 21599}
Thresholds == {0, 40, ERROR_PM25}

\* One row of response_dict['data'] for the i-th sensor asked for: every
\* combination of non-null fields, and each field null on an otherwise good row.
\* sensor_index is the API's key: the rows of one response carry distinct ones.
RawRows(i) ==
    LET good == [sensor_index |-> i, pm25 |-> 40, channel_flags |-> 0,
                 channel_state |-> 3, last_seen |-> 21600]
    IN  [sensor_index : {i}, pm25 : Readings, channel_flags : ChannelFlags,
         channel_state : ChannelStates, last_seen : LastSeens]
        \cup {[good EXCEPT !.sensor_index = NULL], [good EXCEPT !.pm25 = NULL],
              [good EXCEPT !.channel_flags = NULL],
              [good EXCEPT !.channel_state = NULL],
              [good EXCEPT !.last_seen = NULL]}

RawTables ==
    UNION {{d \in [1..n -> UNION {RawRows(i) : i \in 1..n}] :
               \A i \in 1..n : d[i] \in RawRows(i)} : n \in 0..MaxRows}

\* pandas elementwise comparisons: a null operand makes != True and ==, <, >= False.
CmpNe(x, v) == x = NULL \/ x # v
CmpEq(x, v) == x # NULL /\ x = v
CmpLt(x, v) == x # NULL /\ x < v
CmpGe(x, v) == x # NULL /\ x >= v

\* Faulty variant: last_seen left in UTC.
CorrectLastSeenNoOffset(t) == t
\* pd.to_datetime(last_seen, unit='s') - pd.Timedelta(hours=5); NaT stays NaT.
CorrectLastSeen(t) == IF t = NULL THEN NULL ELSE t - UTC_OFFSET_HOURS * 3600

\* lines 108-110: np.array([]) is one-dimensional, and pd.DataFrame rejects it
\* against the five column names (ValueError: shape of passed values).
DataFrameRaises(data) == Len(data) = 0

\* pd.DataFrame(data, columns = col_names) with the corrected last_seen:
\* row i keeps the index label i - 1. No dataframe is built from an empty
\* response.
MakeSensorsDf(data) ==
    IF DataFrameRaises(data)
    THEN "ValueError"
    ELSE [i \in 1..Len(data) |->
            [index |-> i - 1,
             sensor_index |-> data[i].sensor_index,
             pm25 |-> data[i].pm25,
             channel_flags |-> data[i].channel_flags,
             channel_state |-> data[i].channel_state,
             last_seen |-> CorrectLastSeen(data[i].last_seen)]]

\* Faulty variant: a sensor seen exactly 60 minutes ago is flagged too.
FlagsStaleInclusive(r, t) ==
    \/ CmpNe(r.channel_flags, 0)
    \/ CmpEq(r.channel_state, 0)
    \/ r.last_seen # NULL /\ r.last_seen <= t - STALE_MINUTES * 60
\* lines 123-126, flags:
\* channel_flags != 0 | channel_state == 0 | last_seen < now - 60 minutes
Flags(r, t) ==
    \/ CmpNe(r.channel_flags, 0)
    \/ CmpEq(r.channel_state, 0)
    \/ CmpLt(r.last_seen, t - STALE_MINUTES * 60)

\* DataFrame.dropna(): a row with a null in any column is dropped.
HasNa(r) ==
    \/ r.sensor_index = NULL
    \/ r.pm25 = NULL
    \/ r.channel_flags = NULL
    \/ r.channel_state = NULL
    \/ r.last_seen = NULL

\* Faulty variant: no dropna(), and a null reading passes the error filter.
CleanDfNoDropna(df, t) ==
    SelectSeq(SelectSeq(df, LAMBDA r : ~Flags(r, t)),
              LAMBDA r : r.pm25 = NULL \/ r.pm25 < ERROR_PM25)
\* lines 129-141: sensors_df[~flags], then pm25 < 1000, then dropna()
CleanDf(df, t) ==
    SelectSeq(SelectSeq(SelectSeq(df, LAMBDA r : ~Flags(r, t)),
                        LAMBDA r : CmpLt(r.pm25, ERROR_PM25)),
              LAMBDA r : ~HasNa(r))

\* Faulty variant: a reading equal to the threshold is no spike.
SpikesDfStrict(clean, threshold) ==
    LET hit == SelectSeq(clean, LAMBDA r : r.pm25 # NULL /\ r.pm25 > threshold)
    IN  [i \in 1..Len(hit) |-> [sensor_index |-> hit[i].sensor_index,
                                pm25 |-> hit[i].pm25]]
\* line 145: clean_df[clean_df.pm25 >= spike_threshold][['sensor_index', 'pm25']]
\*           .reset_index(drop=True)
SpikesDf(clean, threshold) ==
    LET hit == SelectSeq(clean, LAMBDA r : CmpGe(r.pm25, threshold))
    IN  [i \in 1..Len(hit) |-> [sensor_index |-> hit[i].sensor_index,
                                pm25 |-> hit[i].pm25]]

\* Faulty variant: the isin mask is not negated.
FlaggedSensorIdsNotNegated(df, clean) ==
    LET cleanIds == {clean[i].sensor_index : i \in 1..Len(clean)}
        flagged == SelectSeq(df, LAMBDA r : r.sensor_index \in cleanIds)
    IN  [i \in 1..Len(flagged) |-> flagged[i].sensor_index]
\* lines 149-151: sensors_df[~sensors_df.sensor_index.isin(clean_df.sensor_index)]
\*                .reset_index(drop=True).sensor_index
FlaggedSensorIds(df, clean) ==
    LET cleanIds == {clean[i].sensor_index : i \in 1..Len(clean)}
        flagged == SelectSeq(df, LAMBDA r : r.sensor_index \notin cleanIds)
    IN  [i \in 1..Len(flagged) |-> flagged[i].sensor_index]

\* Get_spikes_df(purpleAir_api, sensor_ids, spike_threshold), lines 72-153, on the
\* response, threshold and clock reading drawn by InitSpikes. On an empty
\* response line 110 raises and nothing is returned.
Get_spikes_df ==
    /\ ~returned
    /\ raised = "none"
    /\ IF DataFrameRaises(response_data)
       THEN /\ raised' = "ValueError"
            /\ UNCHANGED <<sensors_df, clean_df, spikes_df, flagged_sensor_ids,
                           returned>>
       ELSE /\ sensors_df' = MakeSensorsDf(response_data)
            /\ clean_df' = CleanDf(sensors_df', now)
            /\ spikes_df' = SpikesDf(clean_df', spike_threshold)
            /\ flagged_sensor_ids' = FlaggedSensorIds(sensors_df', clean_df')
            /\ returned' = TRUE
            /\ raised' = "none"
    /\ UNCHANGED <<response_data, spike_threshold, now>>
    /\ UNCHANGED store_vars

(***************************************************************************)
(*                          Send_Alerts.py                                 *)
(***************************************************************************)

\* Bound: rows the "Reports Archive" may hold (initialize_report only appends).
MaxReports == 2
\* Bound: the length of the record_ids list given to send_all_messages and
\* update_user_table.
MaxBatch == 2

\* The record_ids of "Sign Up Information"; callers may also ask for 3, which
\* is in no row.
RecordIds == {1, 2}
AskedRecordIds == {1, 2, 3}
\* The alert_index values of "Archived Alerts Acute PurpleAir".
AlertIds == {1, 2}
\* The sensor_index values of "PurpleAir Stations"; callers may also ask for 9,
\* which is in no row.
SensorIds == {1, 2}
AskedSensorIds == {1, 2, 9}

\* The global name report_id has no binding.
Unbound == "<unbound>"
\* The reports_for_day argument: the reports already made for the user today.
ReportsForDay == {0, 1}

\* Instants (seconds of wall time). The store is first read at 600, later at
\* 659 or 90325; the archived alerts start at 0, 600 or 700, so before, at and
\* after the first readings of the clock.
FirstInstant == 10 * 60
Instants == {659, 90325}
LaterInstants(t) == {t} \cup {i \in Instants : i > t}

\* Stored geometries (EPSG:4326), as whole steps of 0.0001 degree east and north
\* of the reference point 45 N, 93 W (the central meridian of UTM zone 15).
\* The distance arguments are metres.
Points == {<<0, 0>>, <<6, 0>>, <<0, 5>>, <<0, 20>>}
Distances == {0, 48, 55, 56, 250}

\* Faulty variant: the distance is taken on the stored coordinates.
ST_TransformIdentity(g) == g
\* ST_Transform(geometry, 26915): the planar UTM 15N coordinates relative to the
\* reference point, in centimetres. At 45 N on the central meridian a step of
\* 0.0001 degree is 7.88 m eastwards and 11.11 m northwards (scale factor
\* 0.9996 included): <<6, 0>> is 47.28 m east, <<0, 5>> 55.55 m north and
\* <<0, 20>> 222.2 m north of the reference point.
ST_Transform(g) == <<788 * g[1], 1111 * g[2]>>

\* Faulty variant: a user exactly d away is left out.
ST_DWithinStrict(a, b, d) ==
    (a[1] - b[1]) * (a[1] - b[1]) + (a[2] - b[2]) * (a[2] - b[2])
        < (100 * d) * (100 * d)
\* ST_DWithin(a, b, d): the planar distance of a and b (positions in
\* centimetres) is at most d metres.
ST_DWithin(a, b, d) ==
    (a[1] - b[1]) * (a[1] - b[1]) + (a[2] - b[2]) * (a[2] - b[2])
        <= (100 * d) * (100 * d)

\* Faulty variant: u.subscribed = TRUE is not asked for.
NearbyQueryAnySubscription(st, us, sensor_index, distance) ==
    LET sensor == {s \in DOMAIN st : s = sensor_index}
    IN  {u \in DOMAIN us :
            \E s \in sensor :
                ST_DWithin(ST_Transform(us[u].geometry), ST_Transform(st[s]),
                           distance)}
\* The SELECT of Users_nearby_sensor, lines 56-68, on tables st and us: the
\* subscribed users crossed with the rows of the sensor (none if it is unknown).
NearbyQuery(st, us, sensor_index, distance) ==
    LET sensor == {s \in DOMAIN st : s = sensor_index}
    IN  {u \in DOMAIN us :
            /\ us[u].subscribed = TRUE
            /\ \E s \in sensor :
                ST_DWithin(ST_Transform(us[u].geometry), ST_Transform(st[s]),
                           distance)}

\* Faulty variant: cached_alerts is not looked at.
NewAlertQueryActiveOnly(us, record_ids) ==
    {u \in DOMAIN us : us[u].active_alerts = {} /\ u \in record_ids}
\* The SELECT of Users_to_message_new_alert, lines 97-101, on table us:
\* active_alerts = '{}' AND cached_alerts = '{}' AND record_id = ANY (record_ids)
NewAlertQuery(us, record_ids) ==
    {u \in DOMAIN us :
        /\ us[u].active_alerts = {}
        /\ us[u].cached_alerts = {}
        /\ u \in record_ids}

\* The record of a finished call; retried tells that the call before it was
\* the same function on the same arguments.
Finished(op, args, status, result, t) ==
    [op |-> op, args |-> args, status |-> status, result |-> result, time |-> t,
     retried |-> (call.op = op /\ call.args = args)]

\* Users_nearby_sensor(pg_connection_dict, sensor_index, distance), lines 43-81
Users_nearby_sensor(sensor_index, distance) ==
    /\ call' = Finished("Users_nearby_sensor", <<sensor_index, distance>>,
                        "returned",
                        NearbyQuery(stations, users, sensor_index, distance),
                        clock)
    /\ pre_users' = users
    /\ pre_reports' = reports
    /\ UNCHANGED <<stations, users, archived, reports, report_id, clock>>
    /\ UNCHANGED spike_vars

\* Users_to_message_new_alert(pg_connection_dict, record_ids), lines 85-114.
\* record_ids is a list; = ANY reads it as a set.
Users_to_message_new_alert(record_ids) ==
    /\ call' = Finished("Users_to_message_new_alert", record_ids, "returned",
                        NewAlertQuery(users, record_ids), clock)
    /\ pre_users' = users
    /\ pre_reports' = reports
    /\ UNCHANGED <<stations, users, archived, reports, report_id, clock>>
    /\ UNCHANGED spike_vars

\* MIN, MAX over a non-empty set; the values of a set as an ascending array.
MinOf(S) == CHOOSE x \in S : \A y \in S : x <= y
MaxOf(S) == CHOOSE x \in S : \A y \in S : x >= y
RECURSIVE Ascending(_)
Ascending(S) == IF S = {} THEN <<>> ELSE <<MinOf(S)>> \o Ascending(S \ {MinOf(S)})

\* DATE_PART('day' | 'hour' | 'minute', d) of the interval d (seconds) that the
\* subtraction of two timestamps gives: days, then hours below 24, then minutes
\* below 60; the fields of a negative interval are negative.
DatePartDay(d) == IF d >= 0 THEN d \div 86400 ELSE 0 - ((0 - d) \div 86400)
DatePartHour(d) ==
    IF d >= 0 THEN (d % 86400) \div 3600 ELSE 0 - (((0 - d) % 86400) \div 3600)
DatePartMinute(d) ==
    IF d >= 0 THEN (d % 3600) \div 60 ELSE 0 - (((0 - d) % 3600) \div 60)

\* lines 155-157: ((DATE_PART('day') * 24) + DATE_PART('hour')) * 60 + DATE_PART('minute')
DurationMinutes(d) ==
    ((DatePartDay(d) * 24) + DatePartHour(d)) * 60 + DatePartMinute(d)

\* The alerts the WHERE of lines 145-146 keeps for the user's cached_alerts.
CachedArchived(us, ar, record_id) ==
    IF record_id \in DOMAIN us
    THEN {a \in DOMAIN ar : a \in us[record_id].cached_alerts}
    ELSE {}

\* ARRAY_AGG(p.sensor_indices) accumulates arrays of one length only, none
\* empty; otherwise PostgreSQL raises and the statement inserts nothing.
ArrayAggFails(ar, as) ==
    \/ \E a \in as : Len(ar[a].sensor_indices) = 0
    \/ \E a, b \in as : Len(ar[a].sensor_indices) # Len(ar[b].sensor_indices)

\* The rows the INSERT ... SELECT of lines 133-161 adds for (record_id, rid) at
\* the instant t: one per row of alert_cache, the aggregates NULL when no
\* archived alert is in cached_alerts.
ReportRows(us, ar, record_id, rid, t) ==
    LET as == CachedArchived(us, ar, record_id)
        start == IF as = {} THEN NULL ELSE MinOf({ar[a].start_time : a \in as})
    IN  IF record_id \notin DOMAIN us THEN <<>>
        ELSE <<[report_id |-> rid,
                start_time |-> start,
                duration_minutes |->
                    IF as = {} THEN NULL ELSE DurationMinutes(t - start),
                max_reading |->
                    IF as = {} THEN NULL ELSE MaxOf({ar[a].max_reading : a \in as}),
                sensor_indices |->
                    IF as = {} THEN NULL
                    ELSE Ascending(UNION {Range(ar[a].sensor_indices) : a \in as}),
                alert_indices |-> us[record_id].cached_alerts]>>

\* What the statement of lines 133-167 leaves in "Sign Up Information": it
\* only inserts into "Reports Archive".
UsersAfterReport(us, record_id) == us

\* The SELECT of lines 171-174: (duration_minutes, max_reading) of the rows of
\* the id, in table order; fetchall()[0] is the first of them.
FetchAll(rs, rid) ==
    LET hits == SelectSeq(rs, LAMBDA r : r.report_id = rid)
    IN  [i \in 1..Len(hits) |-> <<hits[i].duration_minutes, hits[i].max_reading>>]

\* initialize_report(record_id, reports_for_day, pg_connection_dict), lines
\* 117-187. The statement is formatted with the global name report_id (line
\* 163), which the function's parameters do not bind: unbound, the call raises
\* NameError before anything is executed.
initialize_report(record_id, reports_for_day) ==
    /\ Len(reports) < MaxReports
    /\ pre_users' = users
    /\ pre_reports' = reports
    /\ \E t \in LaterInstants(clock) :
        LET args == <<record_id, reports_for_day>>
            as == CachedArchived(users, archived, record_id)
            after == reports \o ReportRows(users, archived, record_id, report_id, t)
        IN  IF report_id = Unbound
            THEN /\ call' = Finished("initialize_report", args, "NameError", NULL, clock)
                 /\ UNCHANGED <<users, reports, clock>>
            ELSE IF ArrayAggFails(archived, as)
            THEN /\ call' = Finished("initialize_report", args, "DataError", NULL, t)
                 /\ clock' = t
                 /\ UNCHANGED <<users, reports>>
            ELSE /\ reports' = after
                 /\ users' = UsersAfterReport(users, record_id)
                 /\ clock' = t
                 /\ call' = IF FetchAll(after, report_id) = <<>>
                            THEN Finished("initialize_report", args, "IndexError",
                                          NULL, t)
                            ELSE Finished("initialize_report", args, "returned",
                                          FetchAll(after, report_id)[1], t)
    /\ UNCHANGED <<stations, archived, report_id>>
    /\ UNCHANGED spike_vars

\* get_phone_numbers(users), lines 209-224: int(record_id*100) for each.
get_phone_numbers(record_ids) ==
    [i \in 1..Len(record_ids) |-> record_ids[i] * 100]

\* twilio_functions.send_texts(numbers, messages): one delivery timestamp for
\* each message, none before the dispatch.
send_texts(numbers, messages, t) == [i \in 1..Len(numbers) |-> t]

\* lines 238-249: SELECT messages_sent ... WHERE record_id = ANY (record_ids),
\* in table order, and each value plus one.
MessagesSentNew(us, record_ids) ==
    LET ids == Ascending({u \in DOMAIN us : u \in Range(record_ids)})
    IN  [i \in 1..Len(ids) |-> us[ids[i]].messages_sent + 1]

\* Faulty variant: the UPDATE is issued, as an increment of messages_sent that
\* a second run applies again.
UsersAfterUpdateWritten(us, record_ids, times) ==
    [u \in DOMAIN us |->
        IF \E i \in 1..Len(record_ids) : record_ids[i] = u
        THEN [us[u] EXCEPT
                 !.messages_sent = @ + 1,
                 !.last_messaged =
                     times[CHOOSE i \in 1..Len(record_ids) : record_ids[i] = u]]
        ELSE us[u]]
\* What update_user_table leaves in "Sign Up Information", lines 251-257: the
\* new values are printed; the UPDATE is "still pending".
UsersAfterUpdate(us, record_ids, times) == us

\* update_user_table(record_ids, times), lines 228-257
update_user_table(record_ids) ==
    LET times == [i \in 1..Len(record_ids) |-> clock]
    IN  /\ call' = Finished("update_user_table", <<record_ids, times>>, "returned",
                            MessagesSentNew(users, record_ids), clock)
        /\ pre_users' = users
        /\ pre_reports' = reports
        /\ users' = UsersAfterUpdate(users, record_ids, times)
        /\ UNCHANGED <<stations, archived, reports, report_id, clock>>
        /\ UNCHANGED spike_vars

\* send_all_messages(record_ids, messages), lines 191-205
send_all_messages(record_ids, messages) ==
    \E t \in LaterInstants(clock) :
        LET numbers == get_phone_numbers(record_ids)
            times == send_texts(numbers, messages, t)
        IN  /\ call' = Finished("send_all_messages", <<record_ids, messages>>,
                                "returned", <<numbers, times>>, clock)
            /\ pre_users' = users
            /\ pre_reports' = reports
            /\ users' = UsersAfterUpdate(users, record_ids, times)
            /\ clock' = t
            /\ UNCHANGED <<stations, archived, reports, report_id>>
            /\ UNCHANGED spike_vars

(***************************************************************************)
(*                     Initial states and specifications                   *)
(***************************************************************************)

\* A user's (active_alerts, cached_alerts): Idle, Alerting, Reportable on each
\* non-empty set of alerts, and both at once.
UserAlertStates ==
    {<<{}, {}>>, <<{1}, {}>>, <<{1}, {2}>>}
        \cup {<<{}, c>> : c \in (SUBSET AlertIds) \ {{}}}

\* Contents of "Archived Alerts Acute PurpleAir": the alerts ten minutes apart
\* with the later peak on the earlier one; the earliest start and the highest
\* peak on different alerts; sensor arrays of different lengths; an alert whose
\* start_time is ahead of the clock.
ArchiveTables ==
    {<<[start_time |-> 600, max_reading |-> 60, sensor_indices |-> <<1, 2>>],
       [start_time |-> 0, max_reading |-> 90, sensor_indices |-> <<2, 3>>]>>,
     <<[start_time |-> 0, max_reading |-> 60, sensor_indices |-> <<2, 1>>],
       [start_time |-> 600, max_reading |-> 90, sensor_indices |-> <<1, 3>>]>>,
     <<[start_time |-> 600, max_reading |-> 60, sensor_indices |-> <<1, 2>>],
       [start_time |-> 0, max_reading |-> 90, sensor_indices |-> <<3>>]>>,
     <<[start_time |-> 700, max_reading |-> 60, sensor_indices |-> <<1, 2>>],
       [start_time |-> 0, max_reading |-> 90, sensor_indices |-> <<2, 3>>]>>}

UserRow(sub, geom, alerts, sent) ==
    [subscribed |-> sub, geometry |-> geom, active_alerts |-> alerts[1],
     cached_alerts |-> alerts[2], messages_sent |-> sent, last_messaged |-> NULL]

NoCall ==
    [op |-> "none", args |-> <<>>, status |-> "none", result |-> NULL,
     time |-> FirstInstant, retried |-> FALSE]

\* The response of the two-sensor example: sensor 1 reads 40 and is healthy,
\* sensor 2 reads 5 with channel A downgraded; both were just seen.
InitOneResponse ==
    /\ response_data =
         <<[sensor_index |-> 1, pm25 |-> 40, channel_flags |-> 0,
            channel_state |-> 3, last_seen |-> 25200],
           [sensor_index |-> 2, pm25 |-> 5, channel_flags |-> 1,
            channel_state |-> 3, last_seen |-> 25200]>>
    /\ spike_threshold = 35
    /\ now = 7200
    /\ sensors_df = <<>>
    /\ clean_df = <<>>
    /\ spikes_df = <<>>
    /\ flagged_sensor_ids = <<>>
    /\ returned = FALSE
    /\ raised = "none"

\* Every response, threshold and clock reading of the bounded sets.
InitSpikes ==
    /\ response_data \in RawTables
    /\ spike_threshold \in Thresholds
    /\ now \in Nows
    /\ sensors_df = <<>>
    /\ clean_df = <<>>
    /\ spikes_df = <<>>
    /\ flagged_sensor_ids = <<>>
    /\ returned = FALSE
    /\ raised = "none"

\* The store with two subscribed users 55.55 m and 222.2 m north of sensor 1, every
\* alert state of each user and every archive table; no report yet.
InitStore ==
    /\ stations = <<<<0, 0>>, <<6, 0>>>>
    /\ \E a1, a2 \in UserAlertStates :
         users = <<UserRow(TRUE, <<0, 5>>, a1, 0), UserRow(TRUE, <<0, 20>>, a2, 1)>>
    /\ archived \in ArchiveTables
    /\ reports = <<>>
    /\ clock = FirstInstant
    /\ call = NoCall
    /\ pre_users = users
    /\ pre_reports = reports

\* The store with every subscription flag and location of the two users, all idle.
InitGeoStore ==
    /\ stations = <<<<0, 0>>, <<6, 0>>>>
    /\ \E s1, s2 \in BOOLEAN, g1, g2 \in Points :
         users = <<UserRow(s1, g1, <<{}, {}>>, 0), UserRow(s2, g2, <<{}, {}>>, 1)>>
    /\ archived \in {CHOOSE a \in ArchiveTables : a[1].start_time = 0}
    /\ reports = <<>>
    /\ clock = FirstInstant
    /\ call = NoCall
    /\ pre_users = users
    /\ pre_reports = reports

\* The module as it is imported: nothing binds report_id.
Init == InitOneResponse /\ InitStore /\ report_id = Unbound

InitGeo == InitOneResponse /\ InitGeoStore /\ report_id = Unbound

InitTelemetry ==
    /\ InitSpikes
    /\ stations = <<<<0, 0>>, <<6, 0>>>>
    /\ users = <<UserRow(TRUE, <<0, 5>>, <<{}, {}>>, 0),
                 UserRow(TRUE, <<0, 20>>, <<{}, {}>>, 1)>>
    /\ archived \in {CHOOSE a \in ArchiveTables : a[1].start_time = 0}
    /\ reports = <<>>
    /\ clock = FirstInstant
    /\ call = NoCall
    /\ pre_users = users
    /\ pre_reports = reports
    /\ report_id = Unbound

\* The record_ids lists of a dispatch, and one message body for each.
BatchLists == UNION {[1..n -> RecordIds] : n \in 0..MaxBatch}
Bodies(record_ids) == [i \in 1..Len(record_ids) |-> "alert"]

Next ==
    \/ Get_spikes_df
    \/ \E s \in AskedSensorIds, d \in Distances : Users_nearby_sensor(s, d)
    \/ \E ids \in SUBSET AskedRecordIds : Users_to_message_new_alert(ids)
    \/ \E r \in AskedRecordIds, n \in ReportsForDay : initialize_report(r, n)
    \/ \E ids \in BatchLists : send_all_messages(ids, Bodies(ids))
    \/ \E ids \in BatchLists : update_user_table(ids)

NextGeo == \E s \in AskedSensorIds, d \in Distances : Users_nearby_sensor(s, d)

NextTelemetry == Get_spikes_df

\* The program as the source has it.
Spec == Init /\ [][Next]_vars
\* Users_nearby_sensor over every placement of the users.
SpecGeo == InitGeo /\ [][NextGeo]_vars
\* Get_spikes_df over every response.
SpecTelemetry == InitTelemetry /\ [][NextTelemetry]_vars

(***************************************************************************)
(*                    Get_spikes_df: the claims C1 - C3                    *)
(***************************************************************************)

\* The i-th telemetry record as the contract reads it: the fields of the raw
\* response, last_seen moved from UTC to the local clock (five hours back).
Record(i) ==
    LET raw == response_data[i]
    IN  [sensor_index |-> raw.sensor_index, reading |-> raw.pm25,
         channel_flags |-> raw.channel_flags, channel_state |-> raw.channel_state,
         last_seen |-> IF raw.last_seen = NULL THEN NULL
                       ELSE raw.last_seen - 5 * 60 * 60]

NoNullField(r) ==
    /\ r.sensor_index # NULL
    /\ r.reading # NULL
    /\ r.channel_flags # NULL
    /\ r.channel_state # NULL
    /\ r.last_seen # NULL

\* channel_flags = Normal, channel_state is not NoPM, seen within 60 minutes,
\* reading < 1000, no null field
MeetsCleanRule(r) ==
    /\ NoNullField(r)
    /\ r.channel_flags = 0
    /\ r.channel_state # 0
    /\ r.last_seen >= now - 60 * 60
    /\ r.reading < 1000

\* flagged by rule: a flag other than Normal, no PM channel, or not seen for
\* more than 60 minutes (a null flag compares unequal to Normal)
FlaggedByRule(r) ==
    \/ r.channel_flags # 0
    \/ r.channel_state = 0
    \/ r.last_seen # NULL /\ r.last_seen < now - 60 * 60

\* dropped for an unusable value: a reading of 1000 or more, or a null field
DroppedUnusable(r) == ~NoNullField(r) \/ r.reading >= 1000

\* the dataframe index labels of the rows of clean_df
CleanLabels == {clean_df[j].index : j \in 1..Len(clean_df)}
CleanIds == {clean_df[j].sensor_index : j \in 1..Len(clean_df)}

\* C1: once Get_spikes_df has returned, a telemetry record of the raw response
\* is in the clean set if and only if channel_flags = 0, channel_state # 0,
\* last_seen >= now - 60 minutes, reading < 1000 and no field is null.
C1_CleanIffRule ==
    returned =>
        /\ Len(sensors_df) = Len(response_data)
        /\ \A i \in 1..Len(response_data) :
              (i - 1 \in CleanLabels) <=> MeetsCleanRule(Record(i))
        /\ \A j \in 1..Len(clean_df) :
              /\ clean_df[j].index + 1 \in 1..Len(response_data)
              /\ clean_df[j].pm25 = Record(clean_df[j].index + 1).reading
              /\ clean_df[j].sensor_index = Record(clean_df[j].index + 1).sensor_index

\* C1 witness: a response of two rows, the first clean, the second kept out of
\* the clean set only by its null channel_state.
C1_Witness ==
    /\ returned
    /\ Len(response_data) = 2
    /\ CleanLabels = {0}
    /\ response_data[2].channel_state = NULL
    /\ response_data[2].channel_flags = 0
    /\ response_data[2].pm25 < 1000

\* C2: the flagged sensor identifiers returned are exactly the identifiers of
\* the raw rows whose identifier is not in the clean set, in row order; no
\* identifier is both clean and flagged; and every raw row is either clean or
\* reported flagged, the flagged ones being those flagged by rule or dropped
\* for an unusable value.
C2_FlaggedPartition ==
    returned =>
        /\ flagged_sensor_ids =
             LET out == SelectSeq([i \in 1..Len(response_data) |-> Record(i)],
                                  LAMBDA r : r.sensor_index \notin CleanIds)
             IN  [k \in 1..Len(out) |-> out[k].sensor_index]
        /\ Range(flagged_sensor_ids) \cap CleanIds = {}
        /\ Len(flagged_sensor_ids) + Len(clean_df) = Len(response_data)
        /\ \A i \in 1..Len(response_data) :
              IF i - 1 \in CleanLabels
              THEN /\ ~FlaggedByRule(Record(i))
                   /\ ~DroppedUnusable(Record(i))
                   /\ Record(i).sensor_index \notin Range(flagged_sensor_ids)
              ELSE /\ FlaggedByRule(Record(i)) \/ DroppedUnusable(Record(i))
                   /\ Record(i).sensor_index \in Range(flagged_sensor_ids)

\* C2 witness: of two rows one is clean and the other, reported flagged, broke
\* no rule and was dropped for its reading of 1000.
C2_Witness ==
    /\ returned
    /\ Len(clean_df) = 1
    /\ Len(flagged_sensor_ids) = 1
    /\ \E i \in 1..Len(response_data) :
          /\ Record(i).sensor_index = flagged_sensor_ids[1]
          /\ ~FlaggedByRule(Record(i))
          /\ Record(i).reading = 1000

\* the (sensor identifier, reading) pairs of the records that meet the clean
\* rule and read at least th, in input order
CleanPairsAtLeast(th) ==
    LET hit == SelectSeq([i \in 1..Len(response_data) |-> Record(i)],
                         LAMBDA r : MeetsCleanRule(r) /\ r.reading >= th)
    IN  [k \in 1..Len(hit) |-> [sensor_index |-> hit[k].sensor_index,
                                pm25 |-> hit[k].reading]]

\* C3: the spike list is exactly the (sensor identifier, reading) pairs of the
\* clean records with reading >= threshold, in input order; a record flagged by
\* rule is never a spike; threshold 0 returns every clean record; a threshold
\* above every clean reading returns the empty list.
C3_SpikesAreCleanAtThreshold ==
    returned =>
        /\ spikes_df = CleanPairsAtLeast(spike_threshold)
        /\ \A i \in 1..Len(response_data) :
              FlaggedByRule(Record(i)) =>
                  \A k \in 1..Len(spikes_df) :
                      spikes_df[k].sensor_index # Record(i).sensor_index
        /\ spike_threshold = 0 =>
              spikes_df = [j \in 1..Len(clean_df) |->
                              [sensor_index |-> clean_df[j].sensor_index,
                               pm25 |-> clean_df[j].pm25]]
        /\ (\A j \in 1..Len(clean_df) : clean_df[j].pm25 < spike_threshold) =>
              spikes_df = <<>>

\* C3 witness: at threshold 40 a clean record reading exactly 40 is a spike and
\* a record flagged by rule reading 40 is not.
C3_Witness ==
    /\ returned
    /\ spike_threshold = 40
    /\ Len(spikes_df) = 1
    /\ spikes_df[1].pm25 = 40
    /\ \E i \in 1..Len(response_data) :
          FlaggedByRule(Record(i)) /\ Record(i).reading = 40

(***************************************************************************)
(*                  Send_Alerts.py: the claims C4 - C10                    *)
(***************************************************************************)

\* The result of a finished call is exactly the candidates whose active_alerts
\* and cached_alerts are both empty (so no user with either one non-empty),
\* and the call changed no persisted state.
C4_StateOfCall ==
    call.op = "Users_to_message_new_alert" =>
        /\ call.status = "returned"
        /\ call.result =
             {u \in call.args \cap DOMAIN pre_users :
                 /\ pre_users[u].active_alerts = {}
                 /\ pre_users[u].cached_alerts = {}}
        /\ \A u \in DOMAIN pre_users :
              (pre_users[u].active_alerts # {} \/ pre_users[u].cached_alerts # {})
                  => u \notin call.result
        /\ users = pre_users
        /\ reports = pre_reports
\* A second call with the same candidates and no state change in between
\* returns the same result.
C4_SecondCall ==
    (/\ call.op = "Users_to_message_new_alert"
     /\ call'.op = "Users_to_message_new_alert"
     /\ call'.args = call.args
     /\ users = pre_users)
        => call'.result = call.result
\* C4: every finished call of Users_to_message_new_alert returned exactly the
\* candidates with both alert sets empty and left the store as it was, and a
\* repeated call on an unchanged store returns the same result.
C4_GatekeeperExact == [](C4_StateOfCall) /\ [][C4_SecondCall]_vars

\* C4 witness: asked about users 1, 2 and the unknown 3, the call returned only
\* user 1; user 2 has no active alert but a cached one.
C4_Witness ==
    /\ call.op = "Users_to_message_new_alert"
    /\ call.args = {1, 2, 3}
    /\ call.result = {1}
    /\ users[2].active_alerts = {}
    /\ users[2].cached_alerts # {}

\* the last call was initialize_report for a user of the table whose
\* cached_alerts was not empty
ReportCallOnCache ==
    /\ call.op = "initialize_report"
    /\ call.args[1] \in DOMAIN pre_users
    /\ pre_users[call.args[1]].cached_alerts # {}

\* the archived alerts that the last call's user had cached when it began
Contributing == CachedArchived(pre_users, archived, call.args[1])

DistinctIds(ids) == \A i, j \in 1..Len(ids) : ids[i] = ids[j] => i = j

\* C6: after send_all_messages with N distinct record identifiers and N message
\* bodies, each of the N users has messages_sent one higher and last_messaged
\* set to the delivery timestamp, which is not before the dispatch; no other
\* user's row changes.
C6_CountersUpdated ==
    (/\ call.op = "send_all_messages"
     /\ DistinctIds(call.args[1])
     /\ Len(call.args[1]) = Len(call.args[2])) =>
        \A u \in DOMAIN users :
            IF u \in Range(call.args[1])
            THEN /\ users[u].messages_sent = pre_users[u].messages_sent + 1
                 /\ \E i \in 1..Len(call.args[1]) :
                       /\ call.args[1][i] = u
                       /\ users[u].last_messaged = call.result[2][i]
                 /\ users[u].last_messaged >= call.time
            ELSE users[u] = pre_users[u]

\* C7: initialize_report, for a user record identifier with cached alerts in
\* the archive and a new report identifier, persists exactly one new Report row
\* with the earliest start_time, the maximum peak reading, the deduplicated
\* union of the sensors and the original cached_alerts, and returns that row's
\* (duration_minutes, max_reading).
C7_ReportPersisted ==
    (ReportCallOnCache /\ Contributing # {}) =>
        /\ call.status = "returned"
        /\ Len(reports) = Len(pre_reports) + 1
        /\ SubSeq(reports, 1, Len(pre_reports)) = pre_reports
        /\ LET row == reports[Len(reports)]
           IN  /\ row.start_time =
                     MinOf({archived[a].start_time : a \in Contributing})
               /\ row.max_reading =
                     MaxOf({archived[a].max_reading : a \in Contributing})
               /\ Range(row.sensor_indices) =
                     UNION {Range(archived[a].sensor_indices) : a \in Contributing}
               /\ Len(row.sensor_indices) = Cardinality(Range(row.sensor_indices))
               /\ row.alert_indices = pre_users[call.args[1]].cached_alerts
               /\ call.result = <<row.duration_minutes, row.max_reading>>

\* the planar position of a stored geometry, in centimetres east and north of
\* the reference point
Easting(g) == 788 * g[1]
Northing(g) == 1111 * g[2]
PlanarDistanceSquared(g, h) ==
    (Easting(g) - Easting(h)) * (Easting(g) - Easting(h))
        + (Northing(g) - Northing(h)) * (Northing(g) - Northing(h))

\* C9: Users_nearby_sensor returns exactly the users with subscribed = true
\* whose planar-projected distance to the sensor's location is <= D, the empty
\* set for an unknown sensor identifier, and no user it returns is missing
\* from the result for a larger D.
C9_NearbyExact ==
    call.op = "Users_nearby_sensor" =>
        LET s == call.args[1]
            D == call.args[2]
        IN  /\ s \in DOMAIN stations =>
                  call.result =
                      {u \in DOMAIN users :
                          /\ users[u].subscribed
                          /\ PlanarDistanceSquared(users[u].geometry, stations[s])
                                 <= (100 * D) * (100 * D)}
            /\ s \notin DOMAIN stations => call.result = {}
            /\ \A E \in Distances :
                  E >= D => call.result \subseteq NearbyQuery(stations, users, s, E)

\* C9 witness: at D = 0 the call returned user 1, who is subscribed and stands
\* on the sensor (distance 0 = D), and not user 2, who stands there too but is
\* not subscribed.
C9_Witness ==
    /\ call.op = "Users_nearby_sensor"
    /\ call.args = <<1, 0>>
    /\ call.result = {1}
    /\ users[1].geometry = stations[1]
    /\ users[2].geometry = stations[1]
    /\ ~users[2].subscribed

\* the step runs again the logical unit that the last call ran: the same
\* report initialization or the same counter update
RunsSameUnitAgain ==
    /\ call.op \in {"initialize_report", "update_user_table"}
    /\ call'.op = call.op
    /\ call'.args = call.args

\* C10: running the same report initialization (same user, same report
\* identifier) or the same counter update a second time leaves the store as it
\* was after the first run: no second Report row, no second increment.
C10_RerunChangesNothing ==
    [][RunsSameUnitAgain => (users' = users /\ reports' = reports)]_vars

\* C10 witness: update_user_table has run a second time for users 1 and 2, and
\* the store is as the first run left it.
C10_Witness ==
    /\ call.op = "update_user_table"
    /\ call.retried
    /\ call.args[1] = <<1, 2>>
    /\ call.result = <<pre_users[1].messages_sent + 1, pre_users[2].messages_sent + 1>>
    /\ users = pre_users
    /\ reports = pre_reports

====
